---- MODULE Spec2Model ----
\* Verification model of the Brand-Strategy-Manager scraping scripts:
\*   - apps/scrapling-worker/main.py       (_scrapling_fetch, /v1/crawl)
\*   - apps/backend/scripts/instagram_scraper.py (RateLimiter, scrape_profile, __main__)
\*   - apps/backend/scripts/google_trends.py     (the three retrying fetchers)
\*   - apps/backend/scripts/social-scrapers/instagram.py (scrape_instagram_profile, __main__)
EXTENDS Integers, Sequences, FiniteSets, TLC

VARIABLES
    \* ---- scrapling worker: _scrapling_fetch ----
    Fetcher,          \* TRUE when scrapling.fetchers.Fetcher was imported (not None)
    DynamicFetcher,   \* TRUE when scrapling.fetchers.DynamicFetcher was imported
    f_pc,             \* position inside _scrapling_fetch
    mode,             \* the raw mode argument
    selected,         \* _normalize_mode(mode)
    http_result,      \* FetchResult of run_http()
    calls,            \* the fetchers invoked by this call, in order
    returned,         \* what _scrapling_fetch returned or raised
    \* ---- scrapling worker: /v1/crawl ----
    c_pc,             \* position inside crawl
    payload,          \* the CrawlRequest
    allowed,          \* normalised allowedDomains
    visited,          \* URLs already taken from the queue
    queued,           \* deque of <<url, depth>>
    pages,            \* pages collected so far
    failed,           \* fetches that raised
    fetch_log,        \* history: every <<url, depth>> handed to _scrapling_fetch
    link_depths,      \* history: depths of the pages whose links were enqueued
    response,         \* the returned body
    \* ---- instagram_scraper.py: shared by every run ----
    now,              \* what datetime.datetime.now() last returned: [day, hour]
    stats_file,       \* sessions/rate_limit_stats.json
    session_files,    \* the session-<user> files that exist
    \* ---- instagram_scraper.py: one run of the script per element of Procs ----
    pc,               \* position inside the script
    env,              \* INSTAGRAM_USERNAME / INSTAGRAM_PASSWORD
    posts_limit,      \* argument of scrape_profile
    limiter,          \* RateLimiter.stats of the run's limiter
    is_logged_in,
    competitors,      \* len(competitors)
    posts,            \* len(posts), which is current_count
    events,           \* history: the requests this run attempted, in order
    charged,          \* history: sum of the counts passed to increment()
    profile_exc,      \* the exception Profile.from_username raised, if any
    retval,           \* what scrape_profile returned or raised
    stdout,           \* JSON objects printed to stdout
    exit_code,        \* -1 while running
    \* ---- google_trends.py: one call of a fetcher ----
    g_pc,             \* position inside the fetcher
    g_fn,             \* which of the three fetchers runs
    attempt,          \* the loop variable of range(MAX_RETRIES)
    g_attempts,       \* history: request attempts made
    g_errors,         \* history: str(e) of every exception caught, in order
    g_result,         \* the dict returned
    \* ---- social-scrapers/instagram.py: one invocation ----
    s_pc,             \* position inside the script
    s_argv,           \* sys.argv[1:]
    max_posts,
    post_count,
    posts_data,       \* the post types of the entries of posts_data
    s_retval,         \* what scrape_instagram_profile returned
    s_stdout,         \* JSON objects printed to stdout
    s_exit            \* exit status, -1 while running

fetchVars == <<Fetcher, DynamicFetcher, f_pc, mode, selected, http_result, calls, returned>>

crawlVars == <<c_pc, payload, allowed, visited, queued, pages, failed,
               fetch_log, link_depths, response>>

sharedVars == <<now, stats_file, session_files>>

procVars == <<pc, env, posts_limit, limiter, is_logged_in, competitors, posts,
              events, charged, profile_exc, retval, stdout, exit_code>>

scraperVars == <<sharedVars, procVars>>

trendsVars == <<g_pc, g_fn, attempt, g_attempts, g_errors, g_result>>

socialVars == <<s_pc, s_argv, max_posts, post_count, posts_data, s_retval, s_stdout, s_exit>>

vars == <<fetchVars, crawlVars, scraperVars, trendsVars, socialVars>>

-----------------------------------------------------------------------------
\* Bounds of the model

MaxStartUrls == 1      \* longest startUrls list
MaxLinks == 1          \* most anchors on one page
MaxPagesBound == 2     \* largest maxPages requested
MaxDepthBound == 1     \* largest maxDepth requested
MaxDay == 1            \* the clock runs over days 0..MaxDay
MaxPostsLimit == 1     \* largest posts_limit argument
InitSlack == 1         \* initial counts lie within InitSlack of a limit, or at 0
MaxSocialPosts == 2    \* largest max_posts argument
MaxFeed == 2           \* most posts profile.get_posts() yields

-----------------------------------------------------------------------------
\* ===================== scrapling worker: _scrapling_fetch =====================

\* response.status is None
NoStatus == 0

\* HTTP statuses a response may carry (None, success, not found, the four
\* "blocked" codes).
Statuses == {NoStatus, 200, 404, 401, 403, 429, 503}

BlockedStatuses == {401, 403, 429, 503}

\* Shapes of response.html: empty, whitespace only, only <script> content,
\* a page whose visible text carries a blocker phrase (lower or upper case),
\* an ordinary page.
HtmlKinds == {"", "blank", "script", "captcha", "CLOUDFLARE", "content"}

\* _clean_text: drops script/style/noscript and collapses whitespace.
_clean_text(html) ==
    CASE html = ""           -> ""
      [] html = "blank"      -> ""
      [] html = "script"     -> ""
      [] html = "captcha"    -> "please solve the captcha"
      [] html = "CLOUDFLARE" -> "CLOUDFLARE Ray ID"
      [] OTHER               -> "hello world"

\* text.lower()
Lower(text) == IF text = "CLOUDFLARE Ray ID" THEN "cloudflare ray id" ELSE text

\* any(token in text.lower() for token in blockers)
HasBlocker(text) == Lower(text) \in {"please solve the captcha", "cloudflare ray id"}

\* Raw mode strings: a word, possibly surrounded by blanks; None is the
\* record with word "None".
ModeWords == {"None", "", "auto", "http", "HTTP", "Dynamic", "stealth", "fast"}
RawModes == [word : ModeWords, pad : BOOLEAN]

Upper(word) ==
    CASE word \in {"http", "HTTP"} -> "HTTP"
      [] word = "Dynamic"          -> "DYNAMIC"
      [] word = "stealth"          -> "STEALTH"
      [] word = "auto"             -> "AUTO"
      [] word = "fast"             -> "FAST"
      [] OTHER                     -> word

\* _normalize_mode: str(raw or "AUTO").strip().upper(), AUTO unless one of
\* the three known modes.
_normalize_mode(raw) ==
    LET truthy == ~(raw.word = "None" \/ (raw.word = "" /\ ~raw.pad))
        value  == IF truthy THEN Upper(raw.word) ELSE "AUTO"
    IN  IF value \in {"HTTP", "DYNAMIC", "STEALTH"} THEN value ELSE "AUTO"

FetchResult(status, html, used, blocked) ==
    [ok                |-> (status # NoStatus /\ 200 <= status /\ status < 400),
     status_code       |-> status,
     html              |-> html,
     text              |-> _clean_text(html),
     fetcher_used      |-> used,
     blocked_suspected |-> blocked]

NoResult == FetchResult(NoStatus, "", "NONE", FALSE)

\* what a fetcher's get() can do: raise, or answer with a status and a body
Responses == [status : Statuses, html : HtmlKinds]

\* _basic_fetch: requests.get, blocked on the status alone
_basic_fetch(r) == FetchResult(r.status, r.html, "HTTP", r.status \in BlockedStatuses)

\* run_http(): blocked on the status or on a blocker phrase in the text
run_http(r) ==
    FetchResult(r.status, r.html, "HTTP",
                r.status \in BlockedStatuses \/ HasBlocker(_clean_text(r.html)))

\* run_dynamic() with DynamicFetcher present: blocked on the status alone
run_dynamic(r) == FetchResult(r.status, r.html, "DYNAMIC", r.status \in BlockedStatuses)

\* A plausible slip: escalate on the blocked flag only.
EscalateBlockedOnly(res) == res.blocked_suspected

\* AUTO escalation test: blocked_suspected or not text.strip().  _clean_text
\* joins the words of the page with single blanks, so text.strip() is empty
\* exactly when text is.
Escalate(res) == res.blocked_suspected \/ res.text = ""

NotReturned == [kind |-> "none", value |-> NoResult]
Value(res)  == [kind |-> "value", value |-> res]
Raised      == [kind |-> "raised", value |-> NoResult]

\* The module-level import (lines 16-20) binds both fetchers or neither.
ImportScrapling(ok) ==
    /\ Fetcher = ok
    /\ DynamicFetcher = ok

FetchIdle ==
    /\ f_pc = "idle"
    /\ mode = [word |-> "None", pad |-> FALSE]
    /\ selected = "AUTO"
    /\ http_result = NoResult
    /\ calls = <<>>
    /\ returned = NotReturned

\* Entry of _scrapling_fetch: normalise the mode and pick the first fetcher.
FetchCall(raw) ==
    /\ f_pc \in {"idle", "done"}
    /\ mode' = raw
    /\ selected' = _normalize_mode(raw)
    /\ http_result' = NoResult
    /\ calls' = <<>>
    /\ returned' = NotReturned
    /\ f_pc' = IF ~Fetcher THEN "basic"
               ELSE IF _normalize_mode(raw) \in {"DYNAMIC", "STEALTH"} THEN "dynamic"
               ELSE "http"
    /\ UNCHANGED <<Fetcher, DynamicFetcher>>

\* Fetcher is None: the whole call is _basic_fetch.
BasicFetchOk(r) ==
    /\ f_pc = "basic"
    /\ calls' = Append(calls, "BASIC")
    /\ returned' = Value(_basic_fetch(r))
    /\ f_pc' = "done"
    /\ UNCHANGED <<Fetcher, DynamicFetcher, mode, selected, http_result>>

BasicFetchRaise ==
    /\ f_pc = "basic"
    /\ calls' = Append(calls, "BASIC")
    /\ returned' = Raised
    /\ f_pc' = "done"
    /\ UNCHANGED <<Fetcher, DynamicFetcher, mode, selected, http_result>>

\* run_http() answers: HTTP mode returns it, AUTO mode returns it unless the
\* result looks blocked or empty.
RunHttpOk(r) ==
    /\ f_pc = "http"
    /\ calls' = Append(calls, "HTTP")
    /\ http_result' = run_http(r)
    /\ IF selected = "AUTO" /\ Escalate(run_http(r))
          THEN /\ f_pc' = "dynamic"
               /\ UNCHANGED returned
          ELSE /\ f_pc' = "done"
               /\ returned' = Value(run_http(r))
    /\ UNCHANGED <<Fetcher, DynamicFetcher, mode, selected>>

\* run_http() raises: nothing catches it.
RunHttpRaise ==
    /\ f_pc = "http"
    /\ calls' = Append(calls, "HTTP")
    /\ returned' = Raised
    /\ f_pc' = "done"
    /\ UNCHANGED <<Fetcher, DynamicFetcher, mode, selected, http_result>>

\* run_dynamic() answers (through _basic_fetch when DynamicFetcher is None).
RunDynamicOk(r) ==
    /\ f_pc = "dynamic"
    /\ calls' = Append(calls, IF DynamicFetcher THEN "DYNAMIC" ELSE "BASIC")
    /\ returned' = Value(IF DynamicFetcher THEN run_dynamic(r) ELSE _basic_fetch(r))
    /\ f_pc' = "done"
    /\ UNCHANGED <<Fetcher, DynamicFetcher, mode, selected, http_result>>

\* run_dynamic() raises: AUTO mode falls back to the HTTP result, the
\* explicit modes let the exception out.
RunDynamicRaise ==
    /\ f_pc = "dynamic"
    /\ calls' = Append(calls, IF DynamicFetcher THEN "DYNAMIC" ELSE "BASIC")
    /\ returned' = IF selected = "AUTO" THEN Value(http_result) ELSE Raised
    /\ f_pc' = "done"
    /\ UNCHANGED <<Fetcher, DynamicFetcher, mode, selected, http_result>>

-----------------------------------------------------------------------------
\* ========================= scrapling worker: /v1/crawl =========================

SeqsUpTo(S, n) == UNION {[1..k -> S] : k \in 0..n}

\* The URLs of the model's web: two spellings of one site, a second site.
HttpUrls == {"http://a.com/", "http://www.a.com/p", "http://B.com/"}

\* What a client may list in startUrls: a URL or a blank string.
StartChoices == HttpUrls \cup {"  "}

\* What an anchor's stripped href may hold (absolute references only, so
\* urljoin(base, href) is href): a URL, nothing, a non-http reference.
Hrefs == HttpUrls \cup {"", "mailto:x@a.com"}

\* What a fetch may report as its final URL: any page of the web (a redirect
\* may lead anywhere) or a URL without a host.
FinalUrls == HttpUrls \cup {"about:blank"}

\* str.strip()
Strip(u) == IF u = "  " THEN "" ELSE u

\* urlparse(u).scheme
Scheme(u) ==
    CASE u \in HttpUrls \cup {"https://www.a.com/x"} -> "http"
      [] u = "mailto:x@a.com"                      -> "mailto"
      [] u = "about:blank"                         -> "about"
      [] OTHER                                     -> ""

\* urlparse(u).hostname or "": the lower-cased host, "" when there is none
Hostname(u) ==
    CASE u = "http://a.com/"       -> "a.com"
      [] u = "http://www.a.com/p"  -> "www.a.com"
      [] u = "https://www.a.com/x" -> "www.a.com"
      [] u = "http://B.com/"       -> "b.com"
      [] OTHER                     -> ""

\* h.lower().replace("www.", "")
NormHost(h) ==
    CASE h = "www.a.com" -> "a.com"
      [] h = "B.com"     -> "b.com"
      [] OTHER           -> h

\* What a client may list in allowedDomains: a bare domain, a full URL, "".
DomainInputs == {"", "https://www.a.com/x", "B.com"}

\* allowed = {urlparse(d).hostname or d}, then lower-cased, "www." removed,
\* empty entries dropped
AllowedSet(domains) ==
    LET named == {IF Hostname(d) # "" THEN Hostname(d) ELSE d : d \in domains}
    IN  {NormHost(d) : d \in {x \in named : x # ""}}

CrawlRequests ==
    [startUrls      : SeqsUpTo(StartChoices, MaxStartUrls),
     allowedDomains : SUBSET DomainInputs,
     maxPages       : 1..MaxPagesBound,
     maxDepth       : 0..MaxDepthBound]

NoRequest == [startUrls |-> <<>>, allowedDomains |-> {}, maxPages |-> 1, maxDepth |-> 0]
NoResponse == [ok |-> FALSE, queued |-> 0, fetched |-> 0, failed |-> 0, pages |-> <<>>]

\* A plausible slip: the loop test off by one.
LoopGuardOffByOne(q, pgs, maxPages) == q # <<>> /\ Len(pgs) <= maxPages

\* while queued and len(pages) < payload.maxPages
LoopGuard(q, pgs, maxPages) == q # <<>> /\ Len(pgs) < maxPages

\* if allowed and host and host not in allowed: continue
HostRejected(allow, host) == allow # {} /\ host # "" /\ host \notin allow

\* A plausible slip: the depth test off by one.
DepthReachedOffByOne(depth, maxDepth) == depth > maxDepth

\* if depth >= payload.maxDepth: continue
DepthReached(depth, maxDepth) == depth >= maxDepth

\* A plausible slip: the domain test on links left out.
LinkAcceptedAnyHost(href, allow, seen) ==
    /\ href # ""
    /\ Scheme(href) \in {"http", "https"}
    /\ href \notin seen

\* The tests an anchor passes before it is enqueued.
LinkAccepted(href, allow, seen) ==
    /\ href # ""
    /\ Scheme(href) \in {"http", "https"}
    /\ ~(allow # {} /\ NormHost(Hostname(href)) \notin allow)
    /\ href \notin seen

RECURSIVE Enqueue(_, _, _, _, _)
\* for anchor in soup.select("a[href]"): ... queued.append((next_url, depth + 1))
Enqueue(q, hrefs, allow, seen, depth) ==
    IF hrefs = <<>> THEN q
    ELSE Enqueue(IF LinkAccepted(Head(hrefs), allow, seen)
                    THEN Append(q, <<Head(hrefs), depth + 1>>) ELSE q,
                 Tail(hrefs), allow, seen, depth)

CrawlIdle ==
    /\ c_pc = "idle"
    /\ payload = NoRequest
    /\ allowed = {}
    /\ visited = {}
    /\ queued = <<>>
    /\ pages = <<>>
    /\ failed = 0
    /\ fetch_log = {}
    /\ link_depths = {}
    /\ response = NoResponse

\* Entry of crawl: the request is parsed, the queue seeded with the start
\* URLs at depth 0.  Each request starts from fresh locals, so one request
\* per behaviour covers them all.
CrawlCall(req) ==
    /\ c_pc = "idle"
    /\ payload' = req
    /\ allowed' = AllowedSet(req.allowedDomains)
    /\ visited' = {}
    /\ queued' = [i \in 1..Len(req.startUrls) |-> <<req.startUrls[i], 0>>]
    /\ pages' = <<>>
    /\ failed' = 0
    /\ fetch_log' = {}
    /\ link_depths' = {}
    /\ response' = NoResponse
    /\ c_pc' = "loop"

\* One pass of the loop that ends at the first continue: a blank or
\* already visited URL.
CrawlSkip ==
    /\ c_pc = "loop"
    /\ LoopGuard(queued, pages, payload.maxPages)
    /\ LET normalized == Strip(Head(queued)[1])
       IN  normalized = "" \/ normalized \in visited
    /\ queued' = Tail(queued)
    /\ UNCHANGED <<c_pc, payload, allowed, visited, pages, failed, fetch_log,
                   link_depths, response>>

\* One pass of the loop whose _scrapling_fetch raises.
CrawlFetchRaise ==
    /\ c_pc = "loop"
    /\ LoopGuard(queued, pages, payload.maxPages)
    /\ LET normalized == Strip(Head(queued)[1])
           depth      == Head(queued)[2]
       IN  /\ normalized # "" /\ normalized \notin visited
           /\ visited' = visited \cup {normalized}
           /\ fetch_log' = fetch_log \cup {<<normalized, depth>>}
    /\ failed' = failed + 1
    /\ queued' = Tail(queued)
    /\ UNCHANGED <<c_pc, payload, allowed, pages, link_depths, response>>

\* One pass of the loop whose _scrapling_fetch answers with final_url and a
\* page carrying the anchors hrefs.
CrawlFetchOk(final_url, hrefs) ==
    /\ c_pc = "loop"
    /\ LoopGuard(queued, pages, payload.maxPages)
    /\ LET normalized == Strip(Head(queued)[1])
           depth      == Head(queued)[2]
           host       == NormHost(Hostname(final_url))
       IN  /\ normalized # "" /\ normalized \notin visited
           /\ visited' = visited \cup {normalized}
           /\ fetch_log' = fetch_log \cup {<<normalized, depth>>}
           /\ IF HostRejected(allowed, host)
                 THEN /\ queued' = Tail(queued)
                      /\ UNCHANGED <<pages, link_depths>>
                 ELSE /\ pages' = Append(pages, [url |-> normalized,
                                                 finalUrl |-> final_url,
                                                 depth |-> depth])
                      /\ IF DepthReached(depth, payload.maxDepth)
                            THEN /\ queued' = Tail(queued)
                                 /\ UNCHANGED link_depths
                            ELSE /\ queued' = Enqueue(Tail(queued), hrefs, allowed,
                                                      visited \cup {normalized}, depth)
                                 /\ link_depths' = link_depths \cup {depth}
    /\ UNCHANGED <<c_pc, payload, allowed, failed, response>>

\* The loop has ended: build the response body.
CrawlReturn ==
    /\ c_pc = "loop"
    /\ ~LoopGuard(queued, pages, payload.maxPages)
    /\ response' = [ok |-> TRUE, queued |-> Len(payload.startUrls),
                    fetched |-> Len(pages), failed |-> failed, pages |-> pages]
    /\ c_pc' = "done"
    /\ UNCHANGED <<payload, allowed, visited, queued, pages, failed, fetch_log, link_depths>>

-----------------------------------------------------------------------------
\* ============== instagram_scraper.py: RateLimiter and scrape_profile ==============

MAX_REQUESTS_PER_HOUR == 150
MAX_REQUESTS_PER_DAY == 1000

\* limiter.increment(5): the cost charged for a password login
LoginCost == 5

\* islice(sim_iter, 5): most similar accounts read
MaxCompetitors == 5

\* The processes that run the script, each once.  The sequential
\* specification runs process 1 on the files that earlier runs left behind.
Procs == {1, 2}
SeqProcs == {1}

\* The clock: a day number and an hour of that day; the model tells the
\* first and the last hour of a day apart, and on its last day only the first.
HoursOn(day) == IF day < MaxDay THEN {0, 23} ELSE {0}
Times == UNION {{[day |-> d, hour |-> h] : h \in HoursOn(d)} : d \in 0..MaxDay}

Later(t, u) == u.day > t.day \/ (u.day = t.day /\ u.hour > t.hour)

\* now.strftime('%Y-%m-%d-%H') and now.strftime('%Y-%m-%d')
current_hour(t) == <<t.day, t.hour>>
current_day(t) == t.day

\* dict.get(key, 0)
Get(map, key) == IF key \in DOMAIN map THEN map[key] ELSE 0

EmptyMap == [k \in {} |-> 0]

\* {'hourly': {}, 'daily': {}}
EmptyStats == [hourly |-> EmptyMap, daily |-> EmptyMap]

\* The stats file: missing, holding something json.load rejects, or holding
\* the stats a limiter wrote.
NoFile == [state |-> "missing", data |-> EmptyStats]
CorruptFile == [state |-> "corrupt", data |-> EmptyStats]
Saved(stats) == [state |-> "ok", data |-> stats]

\* RateLimiter._load_stats: the file's content, empty counts when the file is
\* missing or cannot be parsed.
_load_stats(file) == IF file.state = "ok" THEN file.data ELSE EmptyStats

\* A plausible slip: a new hour or day adds its bucket and keeps the old ones.
ResetKeepOld(stats, t) ==
    [hourly |-> IF current_hour(t) \in DOMAIN stats.hourly THEN stats.hourly
                ELSE (current_hour(t) :> 0) @@ stats.hourly,
     daily  |-> IF current_day(t) \in DOMAIN stats.daily THEN stats.daily
                ELSE (current_day(t) :> 0) @@ stats.daily]

\* check_limit, "Reset if new hour/day": a map without the current bucket is
\* replaced by one holding only that bucket at 0.
Reset(stats, t) ==
    [hourly |-> IF current_hour(t) \in DOMAIN stats.hourly THEN stats.hourly
                ELSE (current_hour(t) :> 0),
     daily  |-> IF current_day(t) \in DOMAIN stats.daily THEN stats.daily
                ELSE (current_day(t) :> 0)]

\* A plausible slip: the limits tested with > instead of >=.
ExceededStrict(stats, t) ==
    \/ Get(stats.hourly, current_hour(t)) > MAX_REQUESTS_PER_HOUR
    \/ Get(stats.daily, current_day(t)) > MAX_REQUESTS_PER_DAY

\* check_limit, "Check limits": whether RateLimitExceeded is raised.
Exceeded(stats, t) ==
    \/ Get(stats.hourly, current_hour(t)) >= MAX_REQUESTS_PER_HOUR
    \/ Get(stats.daily, current_day(t)) >= MAX_REQUESTS_PER_DAY

\* A plausible slip: the daily bucket is not counted.
incrementHourOnly(stats, t, count) ==
    [hourly |-> (current_hour(t) :> Get(stats.hourly, current_hour(t)) + count) @@ stats.hourly,
     daily  |-> (current_day(t) :> Get(stats.daily, current_day(t))) @@ stats.daily]

\* RateLimiter.increment: the stats after the current buckets (created at 0
\* when missing) have grown by count.
increment(stats, t, count) ==
    [hourly |-> (current_hour(t) :> Get(stats.hourly, current_hour(t)) + count) @@ stats.hourly,
     daily  |-> (current_day(t) :> Get(stats.daily, current_day(t)) + count) @@ stats.daily]

\* Environment of a run: each variable unset ("None") or set.
Envs == [username : {"None", "burner"}, password : {"None", "secret"}]

\* f"session-{os.environ.get('INSTAGRAM_USERNAME', 'default')}"
session_file(e) == IF e.username = "None" THEN "session-default" ELSE "session-burner"

\* if username and password
HasCredentials(e) == e.username # "None" /\ e.password # "None"

\* Exceptions Profile.from_username may raise.
ProfileExceptions ==
    {[type |-> "ConnectionException", msg |-> "429 Too Many Requests"],
     [type |-> "ConnectionException", msg |-> "403 Forbidden"],
     [type |-> "ConnectionException", msg |-> "404 Not Found"],
     [type |-> "ProfileNotExistsException", msg |-> "Profile does not exist"]}

NoException == [type |-> "None", msg |-> ""]

\* token in msg
Contains(msg, token) ==
    \/ token = "429" /\ msg = "429 Too Many Requests"
    \/ token = "403" /\ msg = "403 Forbidden"
    \/ token = "404" /\ msg = "404 Not Found"

\* A plausible slip: only 429 triggers the cool-down signal.
ProfileError429Only(e) ==
    IF e.type = "ConnectionException" /\ Contains(e.msg, "429")
       THEN "INSTAGRAM_RATELIMIT_429" ELSE e.msg

\* except ConnectionException: the message of the exception that leaves
\* scrape_profile when the profile fetch fails.
ProfileError(e) ==
    IF e.type = "ConnectionException" /\ (Contains(e.msg, "429") \/ Contains(e.msg, "403"))
       THEN "INSTAGRAM_RATELIMIT_429" ELSE e.msg

\* A plausible slip: the browser import is tried whatever the session load gave.
AfterSessionAlwaysBrowser(logged) == "browser"

\* if not is_logged_in (line 225): where the run goes after the session file
AfterSession(logged) == IF logged THEN "profile" ELSE "browser"

\* if not is_logged_in (line 230): where the run goes after the browser import
AfterBrowser(logged) == IF logged THEN "profile" ELSE "login"

\* import_session_from_browser: True when browser_cookie3 is installed and
\* one of Firefox, Chrome, Safari yields both cookies and the session is saved.
Browsers == {"Firefox", "Chrome", "Safari"}
import_session_from_browser(installed, found) == installed /\ found # {}

NoReturn == [kind |-> "none", error |-> ""]
Printed(error, nposts, ncompetitors) ==
    [error |-> error, posts |-> nposts, discovered_competitors |-> ncompetitors]


\* Counts a stats file may hold when the model starts: a single request, or
\* the limit and the InitSlack values below it.
InitHourCounts == {1} \cup ((MAX_REQUESTS_PER_HOUR - InitSlack)..MAX_REQUESTS_PER_HOUR)
InitDayCounts == (MAX_REQUESTS_PER_DAY - InitSlack)..MAX_REQUESTS_PER_DAY

Time0 == [day |-> 0, hour |-> 0]
HourBefore == [day |-> 0, hour |-> -1]

\* Stats files earlier runs of the script leave behind: none, a damaged one,
\* the buckets of the current hour and day filled within this hour (both
\* hold the same count), or the day's bucket filled over earlier hours, the
\* last of them (one request, the hour before) still in the hourly map.
InitFiles ==
    {NoFile, CorruptFile}
    \cup {Saved([hourly |-> (current_hour(Time0) :> a),
                 daily  |-> (current_day(Time0) :> a)]) : a \in InitHourCounts}
    \cup {Saved([hourly |-> (current_hour(HourBefore) :> 1),
                 daily  |-> (current_day(Time0) :> b)]) : b \in InitDayCounts}

ProcsIdle ==
    /\ pc = [p \in Procs |-> "idle"]
    /\ env = [p \in Procs |-> [username |-> "None", password |-> "None"]]
    /\ posts_limit = [p \in Procs |-> 0]
    /\ limiter = [p \in Procs |-> EmptyStats]
    /\ is_logged_in = [p \in Procs |-> FALSE]
    /\ competitors = [p \in Procs |-> 0]
    /\ posts = [p \in Procs |-> 0]
    /\ events = [p \in Procs |-> <<>>]
    /\ charged = [p \in Procs |-> 0]
    /\ profile_exc = [p \in Procs |-> NoException]
    /\ retval = [p \in Procs |-> NoReturn]
    /\ stdout = [p \in Procs |-> <<>>]
    /\ exit_code = [p \in Procs |-> -1]

\* Nothing of the scraper runs: the state the other specifications keep.
ScraperIdle ==
    /\ now = Time0
    /\ stats_file = NoFile
    /\ session_files = {}
    /\ ProcsIdle

ScraperInit ==
    /\ now = Time0
    /\ stats_file \in InitFiles
    /\ session_files \in {{}, {"session-default", "session-burner"}}
    /\ ProcsIdle

\* datetime.datetime.now(): the clock is read and has not gone back since
\* the last reading.
ReadClock(t) ==
    /\ t = now \/ Later(now, t)
    /\ now' = t

\* limiter.increment(count) by process p at time t: the limiter's stats
\* grow and are written to the stats file (_save_stats).  The directory of
\* the file exists and is writable: scrape_profile created it before it built
\* the limiter, so the write is taken to succeed.
Charge(p, count, t) ==
    /\ ReadClock(t)
    /\ limiter' = [limiter EXCEPT ![p] = increment(limiter[p], t, count)]
    /\ stats_file' = Saved(increment(limiter[p], t, count))
    /\ charged' = [charged EXCEPT ![p] = @ + count]

\* The end of the script: scrape_profile returns or raises, __main__ prints
\* one JSON object and the process exits.
Finish(p, rv, out, code) ==
    /\ pc' = [pc EXCEPT ![p] = "done"]
    /\ retval' = [retval EXCEPT ![p] = rv]
    /\ stdout' = [stdout EXCEPT ![p] = Append(@, out)]
    /\ exit_code' = [exit_code EXCEPT ![p] = code]

Log(p, e) == events' = [events EXCEPT ![p] = Append(@, e)]

\* scrape_profile, step 1: a new process builds its RateLimiter from the
\* stats file and calls check_limit at time t; over the limit it returns the
\* RATE_LIMIT_EXCEEDED dict, which __main__ prints.
Start(p, e, limit, t) ==
    /\ pc[p] = "idle"
    /\ env' = [env EXCEPT ![p] = e]
    /\ posts_limit' = [posts_limit EXCEPT ![p] = limit]
    /\ is_logged_in' = [is_logged_in EXCEPT ![p] = FALSE]
    /\ competitors' = [competitors EXCEPT ![p] = 0]
    /\ posts' = [posts EXCEPT ![p] = 0]
    /\ events' = [events EXCEPT ![p] = <<>>]
    /\ charged' = [charged EXCEPT ![p] = 0]
    /\ profile_exc' = [profile_exc EXCEPT ![p] = NoException]
    /\ ReadClock(t)
    /\ LET checked == Reset(_load_stats(stats_file), t)
       IN  /\ limiter' = [limiter EXCEPT ![p] = checked]
           /\ IF Exceeded(checked, t)
                 THEN /\ pc' = [pc EXCEPT ![p] = "done"]
                      /\ retval' = [retval EXCEPT ![p] =
                                       [kind |-> "returned", error |-> "RATE_LIMIT_EXCEEDED"]]
                      /\ stdout' = [stdout EXCEPT ![p] =
                                       <<Printed("RATE_LIMIT_EXCEEDED", 0, 0)>>]
                      /\ exit_code' = [exit_code EXCEPT ![p] = 0]
                 ELSE /\ pc' = [pc EXCEPT ![p] = "session"]
                      /\ retval' = [retval EXCEPT ![p] = NoReturn]
                      /\ stdout' = [stdout EXCEPT ![p] = <<>>]
                      /\ exit_code' = [exit_code EXCEPT ![p] = -1]
    /\ UNCHANGED <<stats_file, session_files>>

\* Step 3, "Load Login": the session file exists and load_session_from_file
\* succeeds (ok) or raises.
LoadSession(p, ok) ==
    /\ pc[p] = "session"
    /\ session_file(env[p]) \in session_files
    /\ Log(p, IF ok THEN "session_ok" ELSE "session_fail")
    /\ is_logged_in' = [is_logged_in EXCEPT ![p] = ok]
    /\ pc' = [pc EXCEPT ![p] = AfterSession(ok)]
    /\ UNCHANGED <<sharedVars, env, posts_limit, limiter, competitors, posts,
                   charged, profile_exc, retval, stdout, exit_code>>

\* Step 3: there is no session file to load.
NoSession(p) ==
    /\ pc[p] = "session"
    /\ session_file(env[p]) \notin session_files
    /\ pc' = [pc EXCEPT ![p] = AfterSession(FALSE)]
    /\ UNCHANGED <<sharedVars, env, posts_limit, limiter, is_logged_in, competitors,
                   posts, events, charged, profile_exc, retval, stdout, exit_code>>

\* "Priority 1": import_session_from_browser; a success saves the session file.
BrowserImport(p, installed, found) ==
    /\ pc[p] = "browser"
    /\ LET ok == import_session_from_browser(installed, found)
       IN  /\ Log(p, IF ok THEN "browser_ok" ELSE "browser_fail")
           /\ is_logged_in' = [is_logged_in EXCEPT ![p] = ok]
           /\ session_files' = IF ok THEN session_files \cup {session_file(env[p])}
                               ELSE session_files
           /\ pc' = [pc EXCEPT ![p] = AfterBrowser(ok)]
    /\ UNCHANGED <<now, stats_file, env, posts_limit, limiter, competitors,
                   posts, charged, profile_exc, retval, stdout, exit_code>>

\* "Priority 2": password login with both variables set.  L.login may raise,
\* save_session_to_file may raise after a successful login; only when both
\* succeed is the run logged in and the login cost charged.
PasswordLogin(p, res, t) ==
    /\ pc[p] = "login"
    /\ HasCredentials(env[p])
    /\ Log(p, IF res = "ok" THEN "login_ok"
              ELSE IF res = "save_raises" THEN "login_unsaved" ELSE "login_fail")
    /\ IF res = "ok"
          THEN /\ is_logged_in' = [is_logged_in EXCEPT ![p] = TRUE]
               /\ session_files' = session_files \cup {session_file(env[p])}
               /\ Charge(p, LoginCost, t)
          ELSE /\ t = now
               /\ UNCHANGED <<now, is_logged_in, session_files, limiter, stats_file, charged>>
    /\ pc' = [pc EXCEPT ![p] = "profile"]
    /\ UNCHANGED <<env, posts_limit, competitors, posts, profile_exc,
                   retval, stdout, exit_code>>

\* "No credentials available. Running in anonymous mode."
NoCredentials(p) ==
    /\ pc[p] = "login"
    /\ ~HasCredentials(env[p])
    /\ pc' = [pc EXCEPT ![p] = "profile"]
    /\ UNCHANGED <<sharedVars, env, posts_limit, limiter, is_logged_in, competitors,
                   posts, events, charged, profile_exc, retval, stdout, exit_code>>

\* Step 4: Profile.from_username answers; the fetch is charged.
GetProfileOk(p, t) ==
    /\ pc[p] = "profile"
    /\ Log(p, "profile")
    /\ Charge(p, 1, t)
    /\ pc' = [pc EXCEPT ![p] = IF is_logged_in[p] THEN "similar" ELSE "posts"]
    /\ UNCHANGED <<session_files, env, posts_limit, is_logged_in,
                   competitors, posts, profile_exc, retval, stdout, exit_code>>

\* Step 4: Profile.from_username raises e; scrape_profile raises in turn (the
\* cool-down signal on 429/403, e itself otherwise) and __main__ prints the
\* error and exits with status 1.
GetProfileRaise(p, e) ==
    /\ pc[p] = "profile"
    /\ Log(p, "profile")
    /\ profile_exc' = [profile_exc EXCEPT ![p] = e]
    /\ Finish(p, [kind |-> "raised", error |-> ProfileError(e)],
              Printed(ProfileError(e), 0, 0), 1)
    /\ UNCHANGED <<sharedVars, env, posts_limit, limiter, is_logged_in, competitors,
                   posts, charged>>

\* Step 5, logged in: n similar accounts are read (islice stops at five) and
\* the iterator ends; the accounts found are charged.
SimilarDone(p, n, t) ==
    /\ pc[p] = "similar"
    /\ n \in 0..MaxCompetitors
    /\ Log(p, "similar")
    /\ competitors' = [competitors EXCEPT ![p] = n]
    /\ Charge(p, n, t)
    /\ pc' = [pc EXCEPT ![p] = "posts"]
    /\ UNCHANGED <<session_files, env, posts_limit, is_logged_in,
                   posts, profile_exc, retval, stdout, exit_code>>

\* Step 5, logged in: get_similar_accounts or the iterator raises after n
\* accounts were read; the warning is printed and nothing is charged.
SimilarRaise(p, n) ==
    /\ pc[p] = "similar"
    /\ n \in 0..(MaxCompetitors - 1)
    /\ Log(p, "similar_raises")
    /\ competitors' = [competitors EXCEPT ![p] = n]
    /\ pc' = [pc EXCEPT ![p] = "posts"]
    /\ UNCHANGED <<sharedVars, env, posts_limit, limiter, is_logged_in,
                   posts, charged, profile_exc, retval, stdout, exit_code>>

\* A plausible slip: the limit tested with > instead of >=.
LimitReachedOffByOne(count, limit) == count > limit

\* if current_count >= posts_limit: break
LimitReached(count, limit) == count >= limit

\* Step 6: the posts iterator yields a post below the limit; its top
\* comments are read when logged in (errors there are ignored), the post is
\* appended and charged.
PostNext(p, t) ==
    /\ pc[p] = "posts"
    /\ ~LimitReached(posts[p], posts_limit[p])
    /\ events' = [events EXCEPT ![p] =
                     IF is_logged_in[p] THEN @ \o <<"comments", "post">>
                     ELSE Append(@, "post")]
    /\ posts' = [posts EXCEPT ![p] = @ + 1]
    /\ Charge(p, 1, t)
    /\ UNCHANGED <<session_files, pc, env, posts_limit, is_logged_in,
                   competitors, profile_exc, retval, stdout, exit_code>>

\* How the posts loop can end.
PostsEndings ==
    {"break", "exhausted", "TooManyRequestsException", "Exception: 429", "Exception"}

\* Step 6 ends: the limit is reached (break), the iterator is exhausted, or
\* it raises; in every case the result dict is returned and printed.
PostsEnd(p, why) ==
    /\ pc[p] = "posts"
    /\ why = "break" => LimitReached(posts[p], posts_limit[p])
    /\ Log(p, why)
    /\ Finish(p, [kind |-> "result", error |-> ""],
              Printed("", posts[p], competitors[p]), 0)
    /\ UNCHANGED <<sharedVars, env, posts_limit, limiter, is_logged_in, competitors,
                   posts, charged, profile_exc>>

-----------------------------------------------------------------------------
\* ================= google_trends.py: the retrying fetchers =================

MAX_RETRIES == 5

TrendsFunctions == {"get_interest_over_time", "get_related_queries", "get_related_topics"}

\* str(e) of the exceptions pytrends raises.
ErrorTexts ==
    {"Too Many Requests",
     "The request failed: Google returned a response with code 429",
     "timed out"}

\* token in error_str
Mentions(text, token) ==
    \/ token = "Too Many Requests" /\ text = "Too Many Requests"
    \/ token = "429" /\ text = "The request failed: Google returned a response with code 429"

\* 'Too Many Requests' in error_str or '429' in error_str
IsRateLimitError(text) == Mentions(text, "Too Many Requests") \/ Mentions(text, "429")

\* A plausible slip: every error is retried while attempts are left.
RetryAnyError(text, n) == n < MAX_RETRIES - 1

\* Whether the except clause sleeps and continues after error text in pass n.
Retry(text, n) == IsRateLimitError(text) /\ n < MAX_RETRIES - 1

NoTrendsResult == [kind |-> "none", error |-> ""]
TrendsData == [kind |-> "data", error |-> ""]
TrendsFailure(text) == [kind |-> "error", error |-> text]

TrendsIdle ==
    /\ g_pc = "idle"
    /\ g_fn = "none"
    /\ attempt = 0
    /\ g_attempts = 0
    /\ g_errors = <<>>
    /\ g_result = NoTrendsResult

\* The fetcher fn is called: for attempt in range(MAX_RETRIES).
TrendsCall(fn) ==
    /\ g_pc = "idle"
    /\ g_fn' = fn
    /\ attempt' = 0
    /\ IF 0 < MAX_RETRIES
          THEN g_pc' = "try" /\ g_result' = g_result
          ELSE g_pc' = "done" /\ g_result' = TrendsFailure("Max retries exceeded")
    /\ UNCHANGED <<g_attempts, g_errors>>

\* The requests of this pass answer.  get_interest_over_time returns an
\* error dict for an empty frame; otherwise the data dict is returned.
TrendsAnswer(empty) ==
    /\ g_pc = "try"
    /\ empty => g_fn = "get_interest_over_time"
    /\ g_attempts' = g_attempts + 1
    /\ g_result' = IF empty THEN TrendsFailure("No data returned") ELSE TrendsData
    /\ g_pc' = "done"
    /\ UNCHANGED <<g_fn, attempt, g_errors>>

\* The pass raises an exception with text str(e): either the loop sleeps and
\* continues, or {"error": error_str} is returned; a loop that runs out
\* returns "Max retries exceeded".
TrendsError(text) ==
    /\ g_pc = "try"
    /\ g_attempts' = g_attempts + 1
    /\ g_errors' = Append(g_errors, text)
    /\ IF Retry(text, attempt)
          THEN /\ attempt' = attempt + 1
               /\ IF attempt + 1 < MAX_RETRIES
                     THEN g_pc' = "try" /\ g_result' = g_result
                     ELSE g_pc' = "done" /\ g_result' = TrendsFailure("Max retries exceeded")
          ELSE /\ attempt' = attempt
               /\ g_pc' = "done"
               /\ g_result' = TrendsFailure(text)
    /\ UNCHANGED g_fn

-----------------------------------------------------------------------------
\* ================== social-scrapers/instagram.py ==================

\* def scrape_instagram_profile(username, max_posts=20)
DefaultMaxPosts == 20

\* sys.argv[1:]: no argument, a username, or a username and a second
\* argument that is an integer or is not one.
Absent == [kind |-> "absent", value |-> 0]
SecondArgs ==
    {Absent, [kind |-> "text", value |-> 0]}
    \cup {[kind |-> "digits", value |-> n] : n \in 0..MaxSocialPosts}
Argvs ==
    {[username |-> FALSE, second |-> Absent]}
    \cup {[username |-> TRUE, second |-> a] : a \in SecondArgs}

\* post_type: the three known typenames are renamed, any other is kept.
PostTypes == {"CAROUSEL", "REEL", "SINGLE", "GraphStory"}

NoDict == [kind |-> "None", success |-> FALSE, error |-> "", posts |-> <<>>]
Dict(success, error, ps) == [kind |-> "dict", success |-> success, error |-> error, posts |-> ps]

SocialIdle ==
    /\ s_pc = "idle"
    /\ s_argv = [username |-> FALSE, second |-> Absent]
    /\ max_posts = DefaultMaxPosts
    /\ post_count = 0
    /\ posts_data = <<>>
    /\ s_retval = NoDict
    /\ s_stdout = <<>>
    /\ s_exit = -1

\* The script ends with status code; scrape_instagram_profile returned rv.
SocialExit(rv, code) ==
    /\ s_pc' = "exited"
    /\ s_retval' = rv
    /\ s_exit' = code

\* __main__: without a username the usage error is printed and the script
\* exits 1; int() of a second argument that is no integer raises ValueError,
\* which ends the script with a traceback; otherwise the scrape starts.
SocialMain(argv) ==
    /\ s_pc = "idle"
    /\ s_argv' = argv
    /\ IF ~argv.username
          THEN /\ s_stdout' = Append(s_stdout, Dict(FALSE, "No username provided", <<>>))
               /\ SocialExit(NoDict, 1)
               /\ UNCHANGED max_posts
          ELSE IF argv.second.kind = "text"
          THEN /\ SocialExit(NoDict, 1)
               /\ UNCHANGED <<s_stdout, max_posts>>
          ELSE /\ s_pc' = "profile"
               /\ max_posts' = IF argv.second.kind = "absent" THEN DefaultMaxPosts
                               ELSE argv.second.value
               /\ UNCHANGED <<s_stdout, s_retval, s_exit>>
    /\ UNCHANGED <<post_count, posts_data>>

\* Profile.from_username (or reading the profile fields) raises: the outer
\* except prints the error dict.
SocialProfileRaise ==
    /\ s_pc = "profile"
    /\ s_stdout' = Append(s_stdout, Dict(FALSE, "exception", <<>>))
    /\ SocialExit(NoDict, 0)
    /\ UNCHANGED <<s_argv, max_posts, post_count, posts_data>>

\* The profile is read.  For a private account the PRIVATE_ACCOUNT dict is
\* returned to __main__, which does nothing with it.
SocialProfile(private) ==
    /\ s_pc = "profile"
    /\ IF private
          THEN /\ SocialExit(Dict(FALSE, "PRIVATE_ACCOUNT", <<>>), 0)
          ELSE /\ s_pc' = "posts"
               /\ UNCHANGED <<s_retval, s_exit>>
    /\ UNCHANGED <<s_argv, max_posts, post_count, posts_data, s_stdout>>

\* The posts iterator yields a post below max_posts; it is counted, and
\* appended unless reading its fields raises (except Exception: continue).
SocialPost(ok, type) ==
    /\ s_pc = "posts"
    /\ post_count < MaxFeed
    /\ ~(post_count >= max_posts)
    /\ post_count' = post_count + 1
    /\ posts_data' = IF ok THEN Append(posts_data, type) ELSE posts_data
    /\ UNCHANGED <<s_pc, s_argv, max_posts, s_retval, s_stdout, s_exit>>

\* The loop ends by break or because the posts are exhausted, and the result
\* is printed; or the iterator raises and the outer except prints the error.
SocialPostsEnd(why) ==
    /\ s_pc = "posts"
    /\ why = "break" => post_count >= max_posts
    /\ s_stdout' = Append(s_stdout,
                          IF why = "raises" THEN Dict(FALSE, "exception", <<>>)
                          ELSE Dict(TRUE, "", posts_data))
    /\ SocialExit(NoDict, 0)
    /\ UNCHANGED <<s_argv, max_posts, post_count, posts_data>>

-----------------------------------------------------------------------------
\* ================================ Specifications ================================

FetchInit ==
    /\ \E ok \in BOOLEAN : ImportScrapling(ok)
    /\ FetchIdle /\ CrawlIdle /\ ScraperIdle /\ TrendsIdle /\ SocialIdle

FetchNext ==
    \/ (\E raw \in RawModes : FetchCall(raw)) /\ UNCHANGED <<crawlVars, scraperVars, trendsVars, socialVars>>
    \/ (\E r \in Responses : BasicFetchOk(r)) /\ UNCHANGED <<crawlVars, scraperVars, trendsVars, socialVars>>
    \/ BasicFetchRaise /\ UNCHANGED <<crawlVars, scraperVars, trendsVars, socialVars>>
    \/ (\E r \in Responses : RunHttpOk(r)) /\ UNCHANGED <<crawlVars, scraperVars, trendsVars, socialVars>>
    \/ RunHttpRaise /\ UNCHANGED <<crawlVars, scraperVars, trendsVars, socialVars>>
    \/ (\E r \in Responses : RunDynamicOk(r)) /\ UNCHANGED <<crawlVars, scraperVars, trendsVars, socialVars>>
    \/ RunDynamicRaise /\ UNCHANGED <<crawlVars, scraperVars, trendsVars, socialVars>>

SpecFetch == FetchInit /\ [][FetchNext]_vars

\* C1: in AUTO mode with the scrapling fetchers imported, the HTTP fetch is
\* the first fetch, and once it has produced a result the dynamic fetcher is
\* invoked if and only if that result has blocked_suspected set or an empty
\* text; when it is not invoked the HTTP result is what the call returns.
C1_AutoEscalation ==
    (Fetcher /\ DynamicFetcher /\ selected = "AUTO" /\ f_pc \in {"dynamic", "done"}) =>
        /\ Len(calls) \in {1, 2}
        /\ calls[1] = "HTTP"
        /\ \A i \in 1..Len(calls) : calls[i] = "DYNAMIC" => i = 2
        /\ (f_pc = "done" /\ http_result.fetcher_used = "HTTP") =>
              /\ (Len(calls) = 2 /\ calls[2] = "DYNAMIC")
                    <=> (http_result.blocked_suspected \/ http_result.text = "")
              /\ Len(calls) = 1 => returned = Value(http_result)
        /\ (f_pc = "done" /\ http_result.fetcher_used # "HTTP") =>
              (calls = <<"HTTP">> /\ returned = Raised)

\* An AUTO call whose HTTP result was not flagged but had no text, and which
\* therefore went on to the dynamic fetcher.
C1_Witness ==
    /\ Fetcher /\ DynamicFetcher /\ selected = "AUTO" /\ f_pc = "done"
    /\ calls = <<"HTTP", "DYNAMIC">>
    /\ ~http_result.blocked_suspected /\ http_result.text = ""
    /\ returned.kind = "value" /\ returned.value.fetcher_used = "DYNAMIC"

CrawlInit == ImportScrapling(TRUE) /\ FetchIdle /\ CrawlIdle /\ ScraperIdle /\ TrendsIdle /\ SocialIdle

CrawlNext ==
    \/ (\E req \in CrawlRequests : CrawlCall(req)) /\ UNCHANGED <<fetchVars, scraperVars, trendsVars, socialVars>>
    \/ CrawlSkip /\ UNCHANGED <<fetchVars, scraperVars, trendsVars, socialVars>>
    \/ CrawlFetchRaise /\ UNCHANGED <<fetchVars, scraperVars, trendsVars, socialVars>>
    \/ (\E u \in FinalUrls, hs \in SeqsUpTo(Hrefs, MaxLinks) : CrawlFetchOk(u, hs))
          /\ UNCHANGED <<fetchVars, scraperVars, trendsVars, socialVars>>
    \/ CrawlReturn /\ UNCHANGED <<fetchVars, scraperVars, trendsVars, socialVars>>

SpecCrawl == CrawlInit /\ [][CrawlNext]_vars

Init == ImportScrapling(TRUE) /\ FetchIdle /\ CrawlIdle /\ ScraperInit /\ TrendsIdle /\ SocialIdle

\* The steps of process p after its start.
Run(p) ==
    \/ \E ok \in BOOLEAN : LoadSession(p, ok)
    \/ NoSession(p)
    \/ \E installed \in BOOLEAN, found \in SUBSET Browsers : BrowserImport(p, installed, found)
    \/ \E res \in {"ok", "login_raises", "save_raises"}, t \in Times : PasswordLogin(p, res, t)
    \/ NoCredentials(p)
    \/ \E t \in Times : GetProfileOk(p, t)
    \/ \E e \in ProfileExceptions : GetProfileRaise(p, e)
    \/ \E n \in 0..MaxCompetitors, t \in Times : SimilarDone(p, n, t)
    \/ \E n \in 0..MaxCompetitors : SimilarRaise(p, n)
    \/ \E t \in Times : PostNext(p, t)
    \/ \E why \in PostsEndings : PostsEnd(p, why)

\* One run of the script.
Next ==
    \/ (\E p \in SeqProcs, e \in Envs, limit \in 0..MaxPostsLimit, t \in Times :
            Start(p, e, limit, t))
          /\ UNCHANGED <<fetchVars, crawlVars, trendsVars, socialVars>>
    \/ (\E p \in SeqProcs : Run(p)) /\ UNCHANGED <<fetchVars, crawlVars, trendsVars, socialVars>>

Spec == Init /\ [][Next]_vars

\* Two processes run the script at once, within one hour, on a stats file
\* that holds one request for this hour and day.
ConcFile ==
    Saved([hourly |-> (current_hour(Time0) :> 1), daily |-> (current_day(Time0) :> 1)])

ConcInit ==
    /\ ImportScrapling(TRUE) /\ FetchIdle /\ CrawlIdle /\ TrendsIdle /\ SocialIdle
    /\ now = Time0
    /\ stats_file = ConcFile
    /\ session_files \in {{}, {"session-default", "session-burner"}}
    /\ ProcsIdle

ConcRun(p) ==
    \/ \E ok \in BOOLEAN : LoadSession(p, ok)
    \/ NoSession(p)
    \/ \E found \in {{}, {"Firefox"}} : BrowserImport(p, TRUE, found)
    \/ \E res \in {"ok", "login_raises"} : PasswordLogin(p, res, now)
    \/ NoCredentials(p)
    \/ GetProfileOk(p, now)
    \/ GetProfileRaise(p, [type |-> "ConnectionException", msg |-> "429 Too Many Requests"])
    \/ \E n \in {0, 1} : SimilarDone(p, n, now)
    \/ SimilarRaise(p, 0)
    \/ PostNext(p, now)
    \/ \E why \in {"break", "exhausted"} : PostsEnd(p, why)

ConcNext ==
    \/ (\E p \in Procs, e \in Envs : Start(p, e, MaxPostsLimit, now))
          /\ UNCHANGED <<fetchVars, crawlVars, trendsVars, socialVars>>
    \/ (\E p \in Procs : ConcRun(p))
          /\ UNCHANGED <<fetchVars, crawlVars, trendsVars, socialVars>>

SpecConc == ConcInit /\ [][ConcNext]_vars

TrendsInit == ImportScrapling(TRUE) /\ FetchIdle /\ CrawlIdle /\ ScraperIdle /\ TrendsIdle /\ SocialIdle

TrendsNext ==
    \/ (\E fn \in TrendsFunctions : TrendsCall(fn))
          /\ UNCHANGED <<fetchVars, crawlVars, scraperVars, socialVars>>
    \/ (\E empty \in BOOLEAN : TrendsAnswer(empty))
          /\ UNCHANGED <<fetchVars, crawlVars, scraperVars, socialVars>>
    \/ (\E text \in ErrorTexts : TrendsError(text))
          /\ UNCHANGED <<fetchVars, crawlVars, scraperVars, socialVars>>

SocialInit == ImportScrapling(TRUE) /\ FetchIdle /\ CrawlIdle /\ ScraperIdle /\ TrendsIdle /\ SocialIdle

SocialNext ==
    \/ (\E argv \in Argvs : SocialMain(argv))
          /\ UNCHANGED <<fetchVars, crawlVars, scraperVars, trendsVars>>
    \/ SocialProfileRaise /\ UNCHANGED <<fetchVars, crawlVars, scraperVars, trendsVars>>
    \/ (\E private \in BOOLEAN : SocialProfile(private))
          /\ UNCHANGED <<fetchVars, crawlVars, scraperVars, trendsVars>>
    \/ (\E ok \in BOOLEAN, type \in PostTypes : SocialPost(ok, type))
          /\ UNCHANGED <<fetchVars, crawlVars, scraperVars, trendsVars>>
    \/ (\E why \in {"break", "exhausted", "raises"} : SocialPostsEnd(why))
          /\ UNCHANGED <<fetchVars, crawlVars, scraperVars, trendsVars>>

SpecSocial == SocialInit /\ [][SocialNext]_vars

\* Every pass ends: the requests carry a timeout and the sleeps are finite.
SpecTrends == TrendsInit /\ [][TrendsNext]_vars /\ WF_vars(TrendsNext)

-----------------------------------------------------------------------------
\* ============================ Claims: /v1/crawl ============================

\* C6: the crawl never holds, and its response never contains, more than
\* maxPages pages, and summary.fetched is the number of pages returned.
C6_MaxPages ==
    /\ c_pc # "idle" => Len(pages) <= payload.maxPages
    /\ c_pc = "done" =>
          /\ Len(response.pages) <= payload.maxPages
          /\ response.fetched = Len(response.pages)

\* A crawl that was cut short by maxPages: the response is full while URLs
\* were still waiting in the queue.
C6_Witness ==
    /\ c_pc = "done"
    /\ Len(response.pages) = payload.maxPages
    /\ queued # <<>>

\* C7: every page and every queued URL has depth <= maxDepth, a page of
\* depth d > 0 follows a page of depth d - 1 whose links were enqueued, links
\* are enqueued only from pages of depth < maxDepth, and with maxDepth = 0
\* only (stripped) start URLs are fetched.
C7_DepthBound ==
    /\ \A i \in 1..Len(pages) :
          /\ pages[i].depth <= payload.maxDepth
          /\ pages[i].depth > 0 =>
                /\ pages[i].depth - 1 \in link_depths
                /\ \E j \in 1..(i - 1) : pages[j].depth = pages[i].depth - 1
    /\ \A i \in 1..Len(queued) : queued[i][2] <= payload.maxDepth
    /\ \A e \in fetch_log : e[2] <= payload.maxDepth
    /\ \A d \in link_depths : d < payload.maxDepth
    /\ payload.maxDepth = 0 =>
          \A e \in fetch_log :
              /\ e[2] = 0
              /\ \E i \in 1..Len(payload.startUrls) : e[1] = Strip(payload.startUrls[i])

\* A finished crawl that returned a page at the deepest level allowed, found
\* through the links of a start page.
C7_Witness ==
    /\ c_pc = "done"
    /\ payload.maxDepth = 1
    /\ \E i \in 1..Len(response.pages) : response.pages[i].depth = 1
    /\ link_depths = {0}

\* C8 as stated: with allowedDomains naming a domain, no URL whose host is
\* outside allowedDomains is fetched and no returned page has a final-URL
\* host outside allowedDomains.
C8_Confined ==
    allowed # {} =>
        /\ \A e \in fetch_log : NormHost(Hostname(e[1])) \in allowed
        /\ \A i \in 1..Len(pages) : NormHost(Hostname(pages[i].finalUrl)) \in allowed

\* C8 amended: with allowedDomains naming a domain, every URL fetched beyond
\* the start URLs has its host in allowedDomains, and every returned page
\* whose final URL has a host has that host in allowedDomains.
C8_LinksConfined ==
    allowed # {} =>
        /\ \A e \in fetch_log : e[2] > 0 => NormHost(Hostname(e[1])) \in allowed
        /\ \A i \in 1..Len(queued) :
              queued[i][2] > 0 => NormHost(Hostname(queued[i][1])) \in allowed
        /\ \A i \in 1..Len(pages) :
              NormHost(Hostname(pages[i].finalUrl)) \in allowed \cup {""}

\* A confined crawl that followed a link, and dropped a page that had been
\* redirected off the allowed domains.
C8_Witness ==
    /\ allowed = {"a.com"}
    /\ \E e \in fetch_log : e[2] = 1
    /\ Cardinality(fetch_log) > Len(pages) + failed
    /\ c_pc = "done"

-----------------------------------------------------------------------------
\* ===================== Claims: instagram_scraper.py =====================

\* The count the stats file holds for the hour / the day of time t (0 when
\* the file is missing, damaged or has no such bucket).
FileHourCount(file, t) ==
    IF file.state = "ok" THEN Get(file.data.hourly, current_hour(t)) ELSE 0
FileDayCount(file, t) ==
    IF file.state = "ok" THEN Get(file.data.daily, current_day(t)) ELSE 0

Starts(p) == pc[p] = "idle" /\ pc'[p] # "idle"

RateLimited(rv) == rv = [kind |-> "returned", error |-> "RATE_LIMIT_EXCEEDED"]

\* C2 as stated: no hour bucket of the stats file ever holds more than
\* MAX_REQUESTS_PER_HOUR and no day bucket more than MAX_REQUESTS_PER_DAY.
C2_NeverExceeds ==
    stats_file.state = "ok" =>
        /\ \A k \in DOMAIN stats_file.data.hourly :
              stats_file.data.hourly[k] <= MAX_REQUESTS_PER_HOUR
        /\ \A d \in DOMAIN stats_file.data.daily :
              stats_file.data.daily[d] <= MAX_REQUESTS_PER_DAY

\* C3: a run that starts while the stats file holds a count at or over the
\* limit for the current hour or day ends at once with the RATE_LIMIT_EXCEEDED
\* dict: no session load, browser import, login, profile or post fetch is
\* attempted, and the stats file and the session files stay as they were.
C3_RateLimitedStart ==
    /\ [][\A p \in Procs :
            (/\ Starts(p)
             /\ \/ FileHourCount(stats_file, now') >= MAX_REQUESTS_PER_HOUR
                \/ FileDayCount(stats_file, now') >= MAX_REQUESTS_PER_DAY)
            => /\ pc'[p] = "done"
               /\ RateLimited(retval'[p])
               /\ stdout'[p] = <<Printed("RATE_LIMIT_EXCEEDED", 0, 0)>>
               /\ events'[p] = <<>>
               /\ charged'[p] = 0
               /\ stats_file' = stats_file
               /\ session_files' = session_files]_vars
    /\ [](\A p \in Procs :
            RateLimited(retval[p]) =>
                pc[p] = "done" /\ events[p] = <<>> /\ charged[p] = 0)

\* A run stopped by the hourly limit, the file still holding the count that
\* stopped it.
C3_Witness ==
    /\ pc[1] = "done"
    /\ RateLimited(retval[1])
    /\ FileHourCount(stats_file, now) >= MAX_REQUESTS_PER_HOUR
    /\ FileDayCount(stats_file, now) < MAX_REQUESTS_PER_DAY

Rank(ev) ==
    CASE ev \in {"session_ok", "session_fail"} -> 1
      [] ev \in {"browser_ok", "browser_fail"} -> 2
      [] ev \in {"login_ok", "login_unsaved", "login_fail"} -> 3
      [] OTHER -> 4

Succeeded(p) ==
    \E i \in 1..Len(events[p]) : events[p][i] \in {"session_ok", "browser_ok", "login_ok"}

Happened(p, names) == \E i \in 1..Len(events[p]) : events[p][i] \in names

\* C9: the session file, the browser import and the password login are
\* tried in this order and each at most once; a source is tried only after
\* every earlier one failed, the password login only with both variables
\* set; when none succeeds the run still fetches the profile; similar
\* accounts and top comments are read only after a source succeeded.
C9_AuthOrder ==
    \A p \in Procs :
        /\ \A i, j \in 1..Len(events[p]) :
              (i < j /\ Rank(events[p][j]) <= 3) =>
                  /\ Rank(events[p][i]) < Rank(events[p][j])
                  /\ events[p][i] \in {"session_fail", "browser_fail"}
        /\ Happened(p, {"login_ok", "login_unsaved", "login_fail"}) =>
              env[p].username # "None" /\ env[p].password # "None"
        /\ is_logged_in[p] = Succeeded(p)
        /\ Happened(p, {"similar", "similar_raises", "comments"}) => Succeeded(p)
        /\ (Happened(p, {"profile"}) /\ ~Succeeded(p)) =>
              /\ Happened(p, {"browser_fail"})
              /\ (env[p].username # "None" /\ env[p].password # "None") =>
                    Happened(p, {"login_unsaved", "login_fail"})
        /\ (pc[p] = "done" /\ ~RateLimited(retval[p])) => Happened(p, {"profile"})

\* Every source failed in turn and the run went on to return a post.
C9_Witness ==
    /\ events[1] = <<"session_fail", "browser_fail", "login_fail", "profile", "post", "break">>
    /\ retval[1].kind = "result"
    /\ stdout[1] = <<Printed("", 1, 0)>>

Blocked(e) ==
    /\ e.type = "ConnectionException"
    /\ e.msg \in {"429 Too Many Requests", "403 Forbidden"}

\* C10: when the profile fetch raises a ConnectionException with 429 or 403
\* in its message, scrape_profile raises INSTAGRAM_RATELIMIT_429 instead of
\* returning, the fetch is not charged, no similar account and no post is
\* requested, and the script prints that error and exits with status 1.
C10_CoolDown ==
    /\ [](\A p \in Procs :
            Blocked(profile_exc[p]) =>
                /\ pc[p] = "done"
                /\ retval[p] = [kind |-> "raised", error |-> "INSTAGRAM_RATELIMIT_429"]
                /\ stdout[p] = <<Printed("INSTAGRAM_RATELIMIT_429", 0, 0)>>
                /\ exit_code[p] = 1
                /\ events[p][Len(events[p])] = "profile"
                /\ ~Happened(p, {"similar", "similar_raises", "comments", "post"})
                /\ posts[p] = 0 /\ competitors[p] = 0)
    /\ [][\A p \in Procs :
            (Blocked(profile_exc'[p]) /\ ~Blocked(profile_exc[p])) =>
                /\ charged'[p] = charged[p]
                /\ limiter'[p] = limiter[p]
                /\ stats_file' = stats_file]_vars

\* A run that logged in with the password and was then refused with 403:
\* only the login was charged.
C10_Witness ==
    /\ profile_exc[1] = [type |-> "ConnectionException", msg |-> "403 Forbidden"]
    /\ exit_code[1] = 1
    /\ charged[1] = LoginCost
    /\ stats_file = Saved(limiter[1])

\* Number of events of a run that are in names.
RECURSIVE Count(_, _)
Count(evs, names) ==
    IF evs = <<>> THEN 0
    ELSE (IF Head(evs) \in names THEN 1 ELSE 0) + Count(Tail(evs), names)

PostsRaised(p) == Happened(p, {"TooManyRequestsException", "Exception: 429", "Exception"})

\* C11: a run never holds more than posts_limit posts, and an exception in
\* the posts loop (TooManyRequestsException, one mentioning 401/403/429, or
\* any other) ends the loop only: scrape_profile returns the normal result
\* with every post appended before the exception, and the script prints it
\* and exits with status 0.
C11_PostsBounded ==
    \A p \in Procs :
        /\ posts[p] <= posts_limit[p]
        /\ posts[p] = Count(events[p], {"post"})
        /\ PostsRaised(p) =>
              /\ pc[p] = "done"
              /\ retval[p] = [kind |-> "result", error |-> ""]
              /\ stdout[p] = <<Printed("", posts[p], competitors[p])>>
              /\ exit_code[p] = 0
        /\ retval[p].kind = "result" =>
              stdout[p] = <<Printed("", Count(events[p], {"post"}), competitors[p])>>

\* A post was appended, then the iterator raised TooManyRequestsException:
\* the result holds that post.
C11_Witness ==
    /\ posts[1] = 1 /\ posts_limit[1] = 1
    /\ events[1][Len(events[1])] = "TooManyRequestsException"
    /\ stdout[1] = <<Printed("", 1, competitors[1])>>
    /\ exit_code[1] = 0

\* C12 as stated: a run that returns a result has charged exactly 1 for the
\* profile, 1 for every entry of discovered_competitors, 1 for every post
\* returned, and LoginCost if its password login succeeded.
C12_ExactAccounting ==
    \A p \in Procs :
        retval[p].kind = "result" =>
            charged[p] = 1 + competitors[p] + posts[p]
                           + (IF Happened(p, {"login_ok"}) THEN LoginCost ELSE 0)

-----------------------------------------------------------------------------
\* ======================== Claims: google_trends.py ========================

\* C13: a fetcher makes at most MAX_RETRIES request attempts; a further
\* attempt follows only an error mentioning 'Too Many Requests' or '429';
\* any other error is returned at once as {"error": str(e)}; and every call
\* ends with a data result or an error result.
C13_BoundedRetries ==
    /\ [](/\ g_attempts <= MAX_RETRIES
          /\ g_pc = "try" => g_attempts < MAX_RETRIES
          /\ \A i \in 1..Len(g_errors) :
                (g_attempts > i \/ g_pc = "try") => IsRateLimitError(g_errors[i])
          /\ (g_pc = "done" /\ g_errors # <<>> /\ ~IsRateLimitError(g_errors[Len(g_errors)])) =>
                /\ g_result = [kind |-> "error", error |-> g_errors[Len(g_errors)]]
                /\ g_attempts = Len(g_errors)
          /\ g_pc = "done" => g_result.kind \in {"data", "error"})
    /\ (g_pc = "try" ~> g_pc = "done")

\* Five attempts, each answered with a rate-limit error: the last error is
\* returned.
C13_Witness ==
    /\ g_pc = "done"
    /\ g_attempts = MAX_RETRIES
    /\ Len(g_errors) = MAX_RETRIES
    /\ g_result = [kind |-> "error", error |-> "Too Many Requests"]

-----------------------------------------------------------------------------
\* ================= Claims: social-scrapers/instagram.py =================

\* C14 as stated: an invocation that has ended has printed exactly one JSON
\* object to stdout.
C14_OneJsonObject == s_pc = "exited" => Len(s_stdout) = 1

-----------------------------------------------------------------------------
\* ============ Claims: instagram_scraper.py, concurrent runs ============

\* C15 as stated: once both processes have finished, the count the stats
\* file holds for the current hour is the count before they started plus
\* every count either process passed to increment().
C15_NoLostCount ==
    (pc[1] = "done" /\ pc[2] = "done") =>
        FileHourCount(stats_file, now)
            = FileHourCount(ConcFile, Time0) + charged[1] + charged[2]

====
